---- MODULE Spec2Model ----
(***************************************************************************)
(* Model of the streaming connection state machine and its registry:       *)
(* WebSocketConnection and ConnectionManager of                            *)
(* src/src/mcp_polygon/tools/websockets/connection_manager.py.             *)
(*                                                                         *)
(* The program runs on one asyncio event loop: every coroutine runs        *)
(* atomically from one `await` to the next.  A task of the model is either *)
(* a caller (a tool invocation driving the public interface) or a receive  *)
(* task created by connect(); one action is one step of one task between   *)
(* two suspension points.  The remote side (transport accepted or refused, *)
(* frames, closures) is the environment and is chosen nondeterministically.*)
(***************************************************************************)
EXTENDS Integers, Sequences, FiniteSets, TLC

(* ------------------------------- bounds -------------------------------- *)
MaxTransports == 4  \* transports (and receive tasks) one behaviour can hold
\* the lifecycle specification
MaxWs == 2          \* transports opened
MaxOps == 3         \* public operations invoked by the caller
MaxAttempts == 2    \* cap of reconnect_attempts
MaxData == 1        \* data messages sent by the remote side
\* the specification of concurrent callers
RaceOps == 4        \* public operations invoked by the two callers
RaceAttempts == 1   \* cap of reconnect_attempts
RaceData == 1       \* data messages sent by the remote side
\* the specification of the backoff
BackoffOps == 1     \* connect() calls
BackoffAttempts == 7  \* cap of reconnect_attempts
\* the specification of subscriptions
SubOps == 3         \* public operations invoked by the callers
SubAttempts == 1    \* cap of reconnect_attempts
SubWs == 2          \* transports opened
\* the specification of the buffer
BufOps == 1         \* connect() calls
BufData == 102      \* data messages sent by the remote side
\* the specification of the routing
RouteOps == 1       \* connect() calls
RouteData == 3      \* data messages sent by the remote side
RouteHandlers == 2  \* handlers registered
\* the specification of the registry
MaxInst == 3        \* WebSocketConnection objects constructed
\* the specification of the reuse after close()
ReuseOps == 4       \* public operations invoked by the caller
ReuseAttempts == 1  \* cap of reconnect_attempts
ReuseData == 1      \* data messages sent by the remote side
ReuseHandlers == 1  \* handlers registered
ReuseWs == 2        \* transports opened
\* the specification of the shutdown
AllOps == 1         \* connect() calls
AllAttempts == 1    \* cap of reconnect_attempts
AllWs == 2          \* transports opened
AllInst == 2        \* WebSocketConnection objects constructed

DeliverOps == 4     \* connect() calls
DeliverData == 2    \* data messages sent by the remote side
DeliverHandlers == 1  \* handlers registered

AuthAttempts == 2   \* cap of reconnect_attempts

KeepOps == 2        \* connect() and close() calls
KeepAttempts == 1   \* cap of reconnect_attempts
KeepWs == 2         \* transports opened
KeepInst == 2       \* WebSocketConnection objects constructed

WinOps == 3         \* connect() and close() calls
WinData == 103      \* data messages sent, more than the buffer holds after a close()
WinWs == 2          \* transports opened

LiveAttempts == 2   \* cap of reconnect_attempts
LiveWs == 3         \* transports opened

(* ------------------------- program constants --------------------------- *)
max_reconnect_delay == 30   \* connection_manager.py:66
buffer_maxlen == 100        \* connection_manager.py:68
max_attempts == 5           \* connection_manager.py:135

Callers == {101, 102}
\* the single caller that drives the connection in the lifecycle specification
Driver == {101}
Transports == 1..MaxTransports
RTasks == 1..MaxTransports   \* a receive task is created after one more transport was opened
Tasks == Callers \cup RTasks
Channels == {"T.A", "Q.B"}
\* the channel lists a caller passes to subscribe/unsubscribe
ChannelLists == {<<"T.A">>, <<"T.A", "Q.B">>, <<"Q.B", "Q.B">>}
None == 0
Markets == {"stocks", "crypto"}
\* the endpoint and api_key arguments of get_connection (None: not given)
Endpoints == {"none", "wss://custom"}
Keys == {"none", "key1"}

VARIABLES
  \* WebSocketConnection fields (__init__, lines 58-70)
  state, websocket, subscriptions, message_handlers, reconnect_attempts,
  receive_task, message_buffer, total_messages_received, last_error,
  \* the tasks: where each is suspended and its locals
  pc, op, tws, chans, att, cancelReq, waitOn, cur, pend, hidx,
  \* the remote side and the callers' budget
  wsStat, sentData, nops,
  \* observations: the frame sent by the last step, the callers' last
  \* results, the backoff delays since the last success, handler calls, the
  \* data messages taken, the state in which a running close() was called,
  \* the subscribe/unsubscribe calls completed
  wire, res, delays, delivered, taken, pre, calls,
  \* ConnectionManager: the dict connections (line 356) in insertion order, the
  \* WebSocketConnection objects constructed so far, those constructed for each
  \* market since it was last absent from the dict, the callers' last results,
  \* each caller's close_all: where its iteration of the dict is suspended
  connections, created, made, got, sweep

connVars == <<state, websocket, subscriptions, message_handlers, reconnect_attempts,
              receive_task, message_buffer, total_messages_received, last_error>>
taskVars == <<pc, op, tws, chans, att, cancelReq, waitOn, cur, pend, hidx>>
envVars == <<wsStat, sentData, nops>>
obsVars == <<wire, res, delays, delivered, taken, pre, calls>>
regVars == <<connections, created, made, got, sweep>>
vars == <<connVars, taskVars, envVars, obsVars, regVars>>

Min(a, b) == IF a <= b THEN a ELSE b
Range(f) == {f[i] : i \in DOMAIN f}
\* fault variant of line 193: the list names one channel of the set only
FirstOf(S) == <<CHOOSE x \in S : TRUE>>

\* list(a_set): some enumeration of the set
ListOf(S) == CHOOSE q \in UNION {[1..n -> S] : n \in 0..Cardinality(S)} :
               Len(q) = Cardinality(S) /\ Range(q) = S

(* ------------------------------ messages ------------------------------- *)
StatusMsg(s, m) == [isdict |-> TRUE, ev |-> "status", status |-> s, message |-> m, id |-> 0]
DataMsg(n) == [isdict |-> TRUE, ev |-> "T", status |-> "", message |-> "", id |-> n]
Scalar == [isdict |-> FALSE, ev |-> "", status |-> "", message |-> "", id |-> 0]
NoMsg == [isdict |-> FALSE, ev |-> "none", status |-> "", message |-> "", id |-> 0]

ListFrame(ms) == [kind |-> "list", msgs |-> ms]
BadJson == [kind |-> "badjson", msgs |-> <<>>]
ObjectFrame == [kind |-> "object", msgs |-> <<>>]

NoFrame == [action |-> "none", params |-> <<>>, ws |-> None]
OutFrame(a, p, w) == [action |-> a, params |-> p, ws |-> w]

NoGot == [ok |-> TRUE, inst |-> None]

\* no close_all is running: pos is the index of the dict entry whose close() is
\* awaited (0: none), size the length of the dict when the iteration began, reg
\* the connections registered when close_all was last called and closed those
\* whose close() has completed since
NoSweep == [pos |-> 0, size |-> 0, reg |-> {}, closed |-> {}]

NoRes == [op |-> "none", ok |-> TRUE, err |-> "none"]
Ok(o) == [op |-> o, ok |-> TRUE, err |-> "none"]
Fail(o, e) == [op |-> o, ok |-> FALSE, err |-> e]

(* --------------------------- pure functions ---------------------------- *)
\* fault variant of line 267: the delay is not capped
BackoffUncapped(n) == 2^n

\* _handle_connection_error, line 267: min(2**reconnect_attempts, max_reconnect_delay)
BackoffDelay(n) == Min(2^n, max_reconnect_delay)

\* fault variant of lines 68, 224: a buffer without a capacity
BufferAppendUnbounded(buf, m) == Append(buf, m)

\* fault variant of lines 68, 224: at capacity the new entry is dropped
BufferAppendKeepsOldest(buf, m) ==
  IF Len(buf) >= buffer_maxlen THEN buf ELSE Append(buf, m)

\* deque(maxlen=100).append (lines 68, 224): at capacity the oldest entry is dropped
BufferAppend(buf, m) ==
  IF Len(buf) >= buffer_maxlen THEN Append(Tail(buf), m) ELSE Append(buf, m)

\* get_recent_messages (lines 325-326)
get_recent_messages(buf, limit) ==
  LET lim == Min(limit, Len(buf))
  IN IF lim > 0 THEN SubSeq(buf, Len(buf) - lim + 1, Len(buf)) ELSE <<>>

\* fault variant of lines 283, 343: the buffer is left as it is
BufferKept(buf) == buf

\* clear_message_buffer (line 343), called by close() (283)
clear_message_buffer(buf) == <<>>

\* get_message_stats (lines 335-339)
get_message_stats ==
  [total_received |-> total_messages_received,
   buffered |-> Len(message_buffer),
   buffer_capacity |-> buffer_maxlen]

\* fault variant of line 212: no message is taken for a status message
IsStatusNever(m) == FALSE

\* line 212: msg.get("ev") == "status"
IsStatus(m) == m.ev = "status"

\* fault variant of line 247: no status message is taken for an access error
NeverAccessError(m) == FALSE

\* _handle_status, line 247: status == "error" and "don't have access" in message
RaisesAPIAccessError(m) == m.status = "error" /\ m.message = "no access"

\* fault variant of lines 140-150: only the first message of a frame is looked at
AuthScanHead(ms) ==
  IF ms = <<>> THEN "continue"
  ELSE LET m == Head(ms) IN
    IF ~m.isdict THEN "error"
    ELSE IF m.ev = "status" /\ m.status = "auth_success" THEN "success"
    ELSE IF m.ev = "status" /\ m.status = "auth_failed" THEN "failed"
    ELSE "continue"

\* _authenticate, lines 138-150: what one inbound frame does to the read loop
RECURSIVE AuthScanMsgs(_)
AuthScanMsgs(ms) ==
  IF ms = <<>> THEN "continue"
  ELSE LET m == Head(ms) IN
    IF ~m.isdict THEN "error"                      \* msg.get: AttributeError
    ELSE IF m.ev = "status" /\ m.status = "auth_success" THEN "success"
    ELSE IF m.ev = "status" /\ m.status = "auth_failed" THEN "failed"
    ELSE AuthScanMsgs(Tail(ms))

AuthScan(f) ==
  CASE f.kind = "badjson" -> "error"               \* json.loads raises
    [] f.kind = "object" -> "error"                \* iterating a dict yields its keys
    [] OTHER -> AuthScanMsgs(f.msgs)

(* ------------------------------- tasks --------------------------------- *)
Done(t) == pc[t] \in {"cancelled", "returned", "raised"}
Unborn == {t \in RTasks : pc[t] = "unborn"}
NextTask == CHOOSE t \in Unborn : \A u \in Unborn : t <= u
Opened == {w \in Transports : wsStat[w] # "unopened"}
IsOpen(w) == w # None /\ wsStat[w] = "open"
\* another coroutine is already waiting in recv() on transport w
Reading(w, t) == \E u \in Tasks \ {t} : pc[u] \in {"recv", "auth_recv"} /\ tws[u] = w

Init ==
  /\ state = "disconnected"
  /\ websocket = None
  /\ subscriptions = {}
  /\ message_handlers = <<>>
  /\ reconnect_attempts = 0
  /\ receive_task = None
  /\ message_buffer = <<>>
  /\ total_messages_received = 0
  /\ last_error = "none"
  /\ pc = [t \in Tasks |-> IF t \in Callers THEN "idle" ELSE "unborn"]
  /\ op = [t \in Tasks |-> IF t \in Callers THEN "none" ELSE "receive"]
  /\ tws = [t \in Tasks |-> None]
  /\ chans = [t \in Tasks |-> <<>>]
  /\ att = [t \in Tasks |-> 0]
  /\ cancelReq = [t \in Tasks |-> FALSE]
  /\ waitOn = [t \in Tasks |-> None]
  /\ cur = [t \in Tasks |-> NoMsg]
  /\ pend = [t \in Tasks |-> <<>>]
  /\ hidx = [t \in Tasks |-> 0]
  /\ wsStat = [w \in Transports |-> "unopened"]
  /\ sentData = 0
  /\ nops = 0
  /\ wire = NoFrame
  /\ res = [c \in Callers |-> NoRes]
  /\ delays = <<>>
  /\ delivered = <<>>
  /\ taken = 0
  /\ pre = [c \in Callers |-> "none"]
  /\ calls = <<>>
  /\ connections = <<>>
  /\ created = <<>>
  /\ made = [m \in Markets |-> {}]
  /\ got = [c \in Callers |-> NoGot]
  /\ sweep = [c \in Callers |-> NoSweep]

(* ----------------------- connect() and reconnection -------------------- *)
\* The frames the remote side may answer with while a connect() authenticates.
AuthFrames ==
  { ListFrame(<<StatusMsg("auth_success", "authenticated")>>),
    ListFrame(<<StatusMsg("connected", "Connected Successfully")>>),
    ListFrame(<<StatusMsg("connected", "Connected Successfully"),
                StatusMsg("auth_success", "authenticated")>>),
    ListFrame(<<StatusMsg("auth_failed", "Invalid API key")>>),
    ListFrame(<<DataMsg(0)>>),
    BadJson, ObjectFrame }

\* fault variant of line 98: the counter is not reset
AttemptsKept == reconnect_attempts

\* line 98: the counter after a successful authentication
AttemptsAfterSuccess == 0

\* fault variant of lines 264-278: the routine gives up after the first retry
GivesUpAfterRetry(t) ==
  /\ state' = "error"
  /\ reconnect_attempts' = reconnect_attempts + 1
  /\ delays' = Append(delays, BackoffDelay(reconnect_attempts))
  /\ pc' = [pc EXCEPT ![t] = IF reconnect_attempts >= 1 THEN "raised" ELSE "sleep"]

\* An exception inside connect(): except Exception (lines 118-121), then
\* _handle_connection_error up to its sleep (lines 264-271).  The same routine
\* is entered by the receive loop on ConnectionClosed (lines 234-236).
handle_connection_error(t) ==
  /\ state' = "error"
  /\ reconnect_attempts' = reconnect_attempts + 1
  /\ delays' = Append(delays, BackoffDelay(reconnect_attempts))
  /\ pc' = [pc EXCEPT ![t] = "sleep"]

\* connect() from line 110 on, entered with state st, counter ra and delay log
\* dl: create the receive task, resubscribe when subscriptions is not empty
\* (_resubscribe 191-193, subscribe 163-167), return.
ConnTail(t, st, ra, dl) ==
  LET new == NextTask
      raises == subscriptions # {} /\ (st # "connected" \/ ~IsOpen(websocket))
      sends == subscriptions # {} /\ ~raises
      after == IF raises THEN "sleep"
               ELSE IF sends THEN "resub_send"
               ELSE IF t \in Callers THEN "idle" ELSE "returned"
  IN /\ Unborn # {}
     /\ receive_task' = new
     /\ pc' = [pc EXCEPT ![new] = "start", ![t] = after]
     /\ state' = IF raises THEN "error" ELSE st
     /\ reconnect_attempts' = IF raises THEN ra + 1 ELSE ra
     /\ delays' = IF raises THEN Append(dl, BackoffDelay(ra)) ELSE dl
     /\ res' = IF after = "idle" THEN [res EXCEPT ![t] = Ok("connect")]
               ELSE res
     /\ wire' = IF sends THEN OutFrame("subscribe", ListOf(subscriptions), websocket)
                ELSE NoFrame
     /\ chans' = [chans EXCEPT ![t] = IF sends THEN ListOf(subscriptions) ELSE <<>>]
     /\ tws' = [tws EXCEPT ![t] = IF sends THEN websocket ELSE None]

\* connect() is called by a caller: line 79, suspended in websockets.connect (87)
ConnectCall(c) ==
  /\ pc[c] = "idle"
  /\ nops' = nops + 1
  /\ op' = [op EXCEPT ![c] = "connect"]
  /\ state' = "connecting"
  /\ pc' = [pc EXCEPT ![c] = "open"]
  /\ wire' = NoFrame
  /\ UNCHANGED <<websocket, subscriptions, message_handlers, reconnect_attempts, receive_task,
                 message_buffer, total_messages_received, last_error>>
  /\ UNCHANGED <<tws, chans, att, cancelReq, waitOn, cur, pend, hidx>>
  /\ UNCHANGED <<wsStat, sentData, res, delays, delivered, taken>>
  /\ UNCHANGED <<pre, calls, regVars>>

\* the backoff sleep is over (271): connect() again (274, 79)
SleepDone(t) ==
  /\ pc[t] = "sleep" /\ ~cancelReq[t]
  /\ state' = "connecting"
  /\ pc' = [pc EXCEPT ![t] = "open"]
  /\ wire' = NoFrame
  /\ UNCHANGED <<websocket, subscriptions, message_handlers, reconnect_attempts, receive_task,
                 message_buffer, total_messages_received, last_error>>
  /\ UNCHANGED <<op, tws, chans, att, cancelReq, waitOn, cur, pend, hidx>>
  /\ UNCHANGED <<wsStat, sentData, nops, res, delays, delivered, taken>>
  /\ UNCHANGED <<pre, calls, regVars>>

\* websockets.connect returns a transport (87-94), the auth request is sent (129-130)
OpenAccepted(t) ==
  /\ pc[t] = "open" /\ ~cancelReq[t]
  /\ Cardinality(Opened) < MaxTransports
  /\ LET w == Cardinality(Opened) + 1 IN
       /\ wsStat' = [wsStat EXCEPT ![w] = "open"]
       /\ websocket' = w
       /\ tws' = [tws EXCEPT ![t] = w]
       /\ wire' = OutFrame("auth", <<>>, w)
  /\ state' = "authenticating"
  /\ pc' = [pc EXCEPT ![t] = "auth_send"]
  /\ UNCHANGED <<subscriptions, message_handlers, reconnect_attempts, receive_task,
                 message_buffer, total_messages_received, last_error>>
  /\ UNCHANGED <<op, chans, att, cancelReq, waitOn, cur, pend, hidx>>
  /\ UNCHANGED <<sentData, nops, res, delays, delivered, taken>>
  /\ UNCHANGED <<pre, calls, regVars>>

\* websockets.connect raises (connection refused)
OpenRefused(t) ==
  /\ pc[t] = "open" /\ ~cancelReq[t]
  /\ handle_connection_error(t)
  /\ wire' = NoFrame
  /\ UNCHANGED <<websocket, subscriptions, message_handlers, receive_task,
                 message_buffer, total_messages_received, last_error>>
  /\ UNCHANGED <<op, tws, chans, att, cancelReq, waitOn, cur, pend, hidx>>
  /\ UNCHANGED <<wsStat, sentData, nops, res, delivered, taken>>
  /\ UNCHANGED <<pre, calls, regVars>>

\* the send of the auth request is over (130); the first recv of the read loop
\* (136-137) is on self.websocket as it is now
AuthSendDone(t) ==
  /\ pc[t] = "auth_send" /\ ~cancelReq[t]
  /\ IF ~IsOpen(tws[t]) \/ Reading(websocket, t)
       THEN /\ handle_connection_error(t)
            /\ UNCHANGED <<tws, att>>
       ELSE /\ pc' = [pc EXCEPT ![t] = "auth_recv"]
            /\ tws' = [tws EXCEPT ![t] = websocket]
            /\ att' = [att EXCEPT ![t] = 0]
            /\ UNCHANGED <<state, reconnect_attempts, delays>>
  /\ wire' = NoFrame
  /\ UNCHANGED <<websocket, subscriptions, message_handlers, receive_task,
                 message_buffer, total_messages_received, last_error>>
  /\ UNCHANGED <<op, chans, cancelReq, waitOn, cur, pend, hidx>>
  /\ UNCHANGED <<wsStat, sentData, nops, res, delivered, taken>>
  /\ UNCHANGED <<pre, calls, regVars>>

\* one frame is read while authenticating (137-150).  On auth_success connect()
\* goes on (98-114): counter reset, CONNECTED, the previous receive task is
\* cancelled and awaited, or the new one is started at once.
AuthRecv(t, f) ==
  /\ pc[t] = "auth_recv" /\ ~cancelReq[t]
  /\ IsOpen(tws[t])
  /\ LET r == AuthScan(f)
         old == receive_task
     IN CASE r = "success" /\ old # None /\ ~Done(old) ->
               /\ reconnect_attempts' = AttemptsAfterSuccess
               /\ delays' = <<>>
               /\ state' = "connected"
               /\ cancelReq' = [cancelReq EXCEPT ![old] = TRUE]
               /\ waitOn' = [waitOn EXCEPT ![t] = old]
               /\ pc' = [pc EXCEPT ![t] = "await_old"]
               /\ wire' = NoFrame
               /\ UNCHANGED <<receive_task, res, chans, tws, att>>
          [] r = "success" /\ (old = None \/ Done(old)) ->
               /\ ConnTail(t, "connected", AttemptsAfterSuccess, <<>>)
               /\ UNCHANGED <<cancelReq, waitOn, att>>
          [] r = "continue" /\ att[t] + 1 < max_attempts /\ ~Reading(websocket, t) ->
               /\ att' = [att EXCEPT ![t] = att[t] + 1]
               /\ tws' = [tws EXCEPT ![t] = websocket]
               /\ wire' = NoFrame
               /\ UNCHANGED <<state, reconnect_attempts, delays, receive_task, pc, res,
                              chans, cancelReq, waitOn>>
          [] OTHER ->   \* auth_failed, no response within the budget, a bad frame
               /\ handle_connection_error(t)
               /\ wire' = NoFrame
               /\ UNCHANGED <<receive_task, res, chans, tws, att, cancelReq, waitOn>>
  /\ UNCHANGED <<websocket, subscriptions, message_handlers,
                 message_buffer, total_messages_received, last_error>>
  /\ UNCHANGED <<op, cur, pend, hidx>>
  /\ UNCHANGED <<wsStat, sentData, nops, delivered, taken>>
  /\ UNCHANGED <<pre, calls, regVars>>

\* the transport is closed while connect() waits for the auth response:
\* recv raises ConnectionClosed (137)
AuthRecvClosed(t) ==
  /\ pc[t] = "auth_recv" /\ ~cancelReq[t]
  /\ ~IsOpen(tws[t])
  /\ handle_connection_error(t)
  /\ wire' = NoFrame
  /\ UNCHANGED <<websocket, subscriptions, message_handlers, receive_task,
                 message_buffer, total_messages_received, last_error>>
  /\ UNCHANGED <<op, tws, chans, att, cancelReq, waitOn, cur, pend, hidx>>
  /\ UNCHANGED <<wsStat, sentData, nops, res, delivered, taken>>
  /\ UNCHANGED <<pre, calls, regVars>>

\* the awaited previous receive task is done (105): a CancelledError is
\* swallowed (106-107), any other exception of that task propagates (118)
AwaitOldDone(t) ==
  /\ pc[t] = "await_old" /\ ~cancelReq[t]
  /\ Done(waitOn[t])
  /\ IF pc[waitOn[t]] = "raised"
       THEN /\ handle_connection_error(t)
            /\ wire' = NoFrame
            /\ UNCHANGED <<receive_task, res, chans, tws>>
       ELSE ConnTail(t, state, reconnect_attempts, delays)
  /\ waitOn' = [waitOn EXCEPT ![t] = None]
  /\ UNCHANGED <<websocket, subscriptions, message_handlers,
                 message_buffer, total_messages_received, last_error>>
  /\ UNCHANGED <<op, att, cancelReq, cur, pend, hidx>>
  /\ UNCHANGED <<wsStat, sentData, nops, delivered, taken>>
  /\ UNCHANGED <<pre, calls, regVars>>

\* the task that waits at line 105 is itself cancelled (a receive task that
\* reconnects cancels itself at 103, or another connect()/close() cancelled it):
\* the CancelledError is caught at 106 and connect() goes on
AwaitOldCancelled(t) ==
  /\ pc[t] = "await_old" /\ cancelReq[t]
  /\ cancelReq' = [cancelReq EXCEPT ![t] = FALSE]
  /\ waitOn' = [waitOn EXCEPT ![t] = None]
  /\ ConnTail(t, state, reconnect_attempts, delays)
  /\ UNCHANGED <<websocket, subscriptions, message_handlers,
                 message_buffer, total_messages_received, last_error>>
  /\ UNCHANGED <<op, att, cur, pend, hidx>>
  /\ UNCHANGED <<wsStat, sentData, nops, delivered, taken>>
  /\ UNCHANGED <<pre, calls, regVars>>

\* fault variant of line 169: the set is replaced by the channels of the call
SetReplace(subs, channels) == Range(channels)

\* set.update (169) and set.difference_update (186)
SetUpdate(subs, channels) == subs \cup Range(channels)
SetDifferenceUpdate(subs, channels) == subs \ Range(channels)

\* the send of the resubscription is over (167): subscriptions.update (169),
\* connect() returns
ResubSendDone(t) ==
  /\ pc[t] = "resub_send" /\ ~cancelReq[t]
  /\ IF IsOpen(tws[t])
       THEN /\ subscriptions' = SetUpdate(subscriptions, chans[t])
            /\ calls' = Append(calls, <<"subscribe", chans[t]>>)
            /\ pc' = [pc EXCEPT ![t] = IF t \in Callers THEN "idle" ELSE "returned"]
            /\ res' = IF t \in Callers
                        THEN [res EXCEPT ![t] = Ok("connect")] ELSE res
            /\ UNCHANGED <<state, reconnect_attempts, delays>>
       ELSE /\ handle_connection_error(t)
            /\ UNCHANGED <<subscriptions, res, calls>>
  /\ tws' = [tws EXCEPT ![t] = None]
  /\ chans' = [chans EXCEPT ![t] = <<>>]
  /\ wire' = NoFrame
  /\ UNCHANGED <<websocket, message_handlers, receive_task,
                 message_buffer, total_messages_received, last_error>>
  /\ UNCHANGED <<op, att, cancelReq, waitOn, cur, pend, hidx>>
  /\ UNCHANGED <<wsStat, sentData, nops, delivered, taken>>
  /\ UNCHANGED <<pre, regVars>>

\* a cancelled receive task resumes with CancelledError at its suspension point:
\* in the loop it is re-raised (237-239); in the reconnection routine no
\* handler catches it (it is no Exception), so the task ends cancelled
Cancelled(t) ==
  /\ t \in RTasks /\ cancelReq[t]
  /\ pc[t] \in {"start", "recv", "handler", "sleep", "open", "auth_send", "auth_recv",
                "resub_send"}
  /\ pc' = [pc EXCEPT ![t] = "cancelled"]
  /\ cancelReq' = [cancelReq EXCEPT ![t] = FALSE]
  /\ tws' = [tws EXCEPT ![t] = None]
  /\ chans' = [chans EXCEPT ![t] = <<>>]
  /\ att' = [att EXCEPT ![t] = 0]
  /\ cur' = [cur EXCEPT ![t] = NoMsg]
  /\ pend' = [pend EXCEPT ![t] = <<>>]
  /\ hidx' = [hidx EXCEPT ![t] = 0]
  /\ wire' = NoFrame
  /\ UNCHANGED connVars
  /\ UNCHANGED <<op, waitOn>>
  /\ UNCHANGED <<wsStat, sentData, nops, res, delays, delivered, taken>>
  /\ UNCHANGED <<pre, calls, regVars>>

(* --------------------------- the receive loop -------------------------- *)
\* The frames the remote side may send to a connected client; n data messages
\* were sent before, and data messages are numbered in the order sent.
LoopFrames(n) ==
  { BadJson, ObjectFrame,
    ListFrame(<<StatusMsg("success", "subscribed")>>),
    ListFrame(<<StatusMsg("error", "no access")>>),
    ListFrame(<<DataMsg(n + 1)>>),
    ListFrame(<<DataMsg(n + 1), DataMsg(n + 2)>>),
    ListFrame(<<StatusMsg("success", "subscribed"), DataMsg(n + 1)>>),
    ListFrame(<<DataMsg(n + 1), StatusMsg("error", "no access")>>),
    ListFrame(<<Scalar>>) }

DataCount(f) ==
  Cardinality({i \in DOMAIN f.msgs : f.msgs[i].isdict /\ f.msgs[i].ev # "status"})

\* The for loop over the messages of one frame (210-229), run until it is
\* suspended in a handler ("await"), ends ("next") or raises ("raise").
\* acc carries state, last_error, the buffer and the counters.
RECURSIVE Route(_, _, _)
Route(ms, handlers, acc) ==
  IF ms = <<>> THEN [acc EXCEPT !.stop = "next"]
  ELSE LET m == Head(ms) IN
    IF ~m.isdict THEN [acc EXCEPT !.stop = "raise"]          \* msg.get: AttributeError
    ELSE IF IsStatus(m) THEN                                  \* 212-221
      Route(Tail(ms), handlers,
            IF RaisesAPIAccessError(m)
              THEN [acc EXCEPT !.le = m.message, !.st = "error"]
              ELSE acc)
    ELSE                                                      \* 222-229
      LET a2 == [acc EXCEPT !.buf = BufferAppend(acc.buf, m),
                            !.total = acc.total + 1,
                            !.tk = acc.tk + 1]
      IN IF handlers = <<>> THEN Route(Tail(ms), handlers, a2)
         ELSE [a2 EXCEPT !.stop = "await", !.cur = m, !.rest = Tail(ms)]

\* fault variant of line 224: the counter restarts with every frame
AccCounterReset == [st |-> state, le |-> last_error, buf |-> message_buffer,
                    total |-> 0, tk |-> taken,
                    stop |-> "next", cur |-> NoMsg, rest |-> <<>>]

Acc == [st |-> state, le |-> last_error, buf |-> message_buffer,
        total |-> total_messages_received, tk |-> taken,
        stop |-> "next", cur |-> NoMsg, rest |-> <<>>]

\* what Route's result does to the connection and to the receive task t
ApplyRoute(t, r) ==
  /\ state' = r.st
  /\ last_error' = r.le
  /\ message_buffer' = r.buf
  /\ total_messages_received' = r.total
  /\ taken' = r.tk
  /\ cur' = [cur EXCEPT ![t] = r.cur]
  /\ pend' = [pend EXCEPT ![t] = r.rest]
  /\ hidx' = [hidx EXCEPT ![t] = IF r.stop = "await" THEN 1 ELSE 0]
  /\ delivered' = IF r.stop = "await"
                    THEN Append(delivered, <<message_handlers[1], r.cur.ev, r.cur.id>>)
                    ELSE delivered
  /\ pc' = [pc EXCEPT ![t] =
              CASE r.stop = "await" -> "handler"
                [] r.stop = "raise" -> "raised"
                [] OTHER -> IF pc[t] = "handler" /\ Reading(tws[t], t)
                              THEN "raised"       \* recv while another coroutine waits in recv
                              ELSE "recv"]

\* the first step of a receive task: async for over self.websocket (202)
RecvStart(t) ==
  /\ t \in RTasks /\ pc[t] = "start" /\ ~cancelReq[t]
  /\ tws' = [tws EXCEPT ![t] = websocket]
  /\ pc' = [pc EXCEPT ![t] = IF Reading(websocket, t) THEN "raised" ELSE "recv"]
  /\ wire' = NoFrame
  /\ UNCHANGED connVars
  /\ UNCHANGED <<op, chans, att, cancelReq, waitOn, cur, pend, hidx>>
  /\ UNCHANGED <<wsStat, sentData, nops, res, delays, delivered, taken>>
  /\ UNCHANGED <<pre, calls, regVars>>

\* one inbound frame (202-232)
RecvFrame(t, f) ==
  /\ t \in RTasks /\ pc[t] = "recv" /\ ~cancelReq[t]
  /\ IsOpen(tws[t])
  /\ sentData' = sentData + (IF f.kind = "list" THEN DataCount(f) ELSE 0)
  /\ ApplyRoute(t, IF f.kind = "list" THEN Route(f.msgs, message_handlers, Acc) ELSE Acc)
  /\ wire' = NoFrame
  /\ UNCHANGED <<websocket, subscriptions, message_handlers, reconnect_attempts, receive_task>>
  /\ UNCHANGED <<op, tws, chans, att, cancelReq, waitOn>>
  /\ UNCHANGED <<wsStat, nops, res, delays>>
  /\ UNCHANGED <<pre, calls, regVars>>

\* a handler returns (229): the next handler, or the rest of the frame
HandlerDone(t) ==
  /\ t \in RTasks /\ pc[t] = "handler" /\ ~cancelReq[t]
  /\ IF hidx[t] < Len(message_handlers)
       THEN /\ hidx' = [hidx EXCEPT ![t] = hidx[t] + 1]
            /\ delivered' = Append(delivered,
                                    <<message_handlers[hidx[t] + 1], cur[t].ev, cur[t].id>>)
            /\ UNCHANGED <<state, last_error, message_buffer, total_messages_received,
                           taken, cur, pend, pc>>
       ELSE ApplyRoute(t, Route(pend[t], message_handlers, Acc))
  /\ wire' = NoFrame
  /\ UNCHANGED <<websocket, subscriptions, message_handlers, reconnect_attempts, receive_task>>
  /\ UNCHANGED <<op, tws, chans, att, cancelReq, waitOn>>
  /\ UNCHANGED <<wsStat, sentData, nops, res, delays>>
  /\ UNCHANGED <<pre, calls, regVars>>

\* a handler raises: nothing in _receive_messages catches it (231, 234, 237)
HandlerRaises(t) ==
  /\ t \in RTasks /\ pc[t] = "handler" /\ ~cancelReq[t]
  /\ pc' = [pc EXCEPT ![t] = "raised"]
  /\ tws' = [tws EXCEPT ![t] = None]
  /\ cur' = [cur EXCEPT ![t] = NoMsg]
  /\ pend' = [pend EXCEPT ![t] = <<>>]
  /\ hidx' = [hidx EXCEPT ![t] = 0]
  /\ wire' = NoFrame
  /\ UNCHANGED connVars
  /\ UNCHANGED <<op, chans, att, cancelReq, waitOn>>
  /\ UNCHANGED <<wsStat, sentData, nops, res, delays, delivered, taken>>
  /\ UNCHANGED <<pre, calls, regVars>>

\* the transport the loop iterates is closed: after a closure with an error
\* code the iteration raises ConnectionClosed (234-236); after a normal closure
\* the iteration of the transport library just ends and the coroutine returns
RecvClosed(t) ==
  /\ t \in RTasks /\ pc[t] = "recv" /\ ~cancelReq[t]
  /\ tws[t] # None /\ wsStat[tws[t]] \in {"closed_ok", "closed_err"}
  /\ IF wsStat[tws[t]] = "closed_err"
       THEN handle_connection_error(t)
       ELSE /\ pc' = [pc EXCEPT ![t] = "returned"]
            /\ UNCHANGED <<state, reconnect_attempts, delays>>
  /\ wire' = NoFrame
  /\ UNCHANGED <<websocket, subscriptions, message_handlers, receive_task,
                 message_buffer, total_messages_received, last_error>>
  /\ UNCHANGED <<op, tws, chans, att, cancelReq, waitOn, cur, pend, hidx>>
  /\ UNCHANGED <<wsStat, sentData, nops, res, delivered, taken>>
  /\ UNCHANGED <<pre, calls, regVars>>

(* ----------------- close() called by close_all (387-389) --------------- *)
\* The WebSocketConnection object whose fields and tasks the model holds is the
\* first one constructed (line 381); every other object is never connected, so
\* that close() on it (283-293) returns without suspending and changes nothing.
Live == 1

Instances(conns) == {conns[i][2] : i \in DOMAIN conns}
LivePos(conns) ==
  IF Live \in Instances(conns) THEN CHOOSE i \in DOMAIN conns : conns[i][2] = Live ELSE 0

\* close() has completed on the connections in done: every close_all that is
\* under way has seen it
NoteClosed(sw, done) ==
  [c \in Callers |-> IF sw[c].pos > 0 THEN [sw[c] EXCEPT !.closed = @ \cup done] ELSE sw[c]]

\* fault variant of line 389: the dict is not cleared
DictKept(conns) == conns

\* line 389: self.connections.clear()
DictClear(conns) == <<>>

\* close_all from the dict entry at index from on (387-390): the remaining
\* connections are closed one after the other, none of these calls suspends,
\* the dict is cleared and close_all returns
close_all_end(c, sw, from) ==
  LET rest == {connections[j][2] : j \in {k \in DOMAIN connections : k >= from}} IN
  /\ connections' = DictClear(connections)
  /\ made' = [m \in Markets |-> {}]
  /\ got' = [got EXCEPT ![c] = NoGot]
  /\ sweep' = [NoteClosed(sw, rest) EXCEPT ![c].pos = 0, ![c].size = 0]
  /\ UNCHANGED created

\* an exception leaves close_all: that of a close() (388), or the RuntimeError
\* of the dict iterator when the dict changed size during the await (387)
close_all_raise(c, sw) ==
  /\ got' = [got EXCEPT ![c] = [ok |-> FALSE, inst |-> None]]
  /\ sweep' = [sw EXCEPT ![c].pos = 0, ![c].size = 0]
  /\ UNCHANGED <<connections, created, made>>

\* what follows a step of caller c's close(): nothing while close() is still
\* suspended; when it is over and close_all called it, the for loop goes on
Resume(c) ==
  IF pc'[c] # "idle" THEN UNCHANGED regVars
  ELSE IF sweep[c].pos = 0
    THEN /\ sweep' = IF res'[c].ok THEN NoteClosed(sweep, {Live}) ELSE sweep
         /\ UNCHANGED <<connections, created, made, got>>
  ELSE IF ~res'[c].ok THEN close_all_raise(c, sweep)
  ELSE IF Len(connections) # sweep[c].size
    THEN close_all_raise(c, NoteClosed(sweep, {Live}))
  ELSE close_all_end(c, NoteClosed(sweep, {Live}), sweep[c].pos + 1)

(* ------------------------------- close() ------------------------------- *)
\* close() to its first suspension: the buffer is cleared (283), the receive
\* task is cancelled and awaited (286-289), or the transport is closed
\* (293-294); with neither a task nor a transport close() returns at once
close_begin(c) ==
  /\ pc[c] = "idle"
  /\ message_buffer' = clear_message_buffer(message_buffer)
  /\ LET rt == receive_task IN
       IF rt # None /\ ~Done(rt)
         THEN /\ cancelReq' = [cancelReq EXCEPT ![rt] = TRUE]
              /\ waitOn' = [waitOn EXCEPT ![c] = rt]
              /\ pc' = [pc EXCEPT ![c] = "close_await"]
              /\ pre' = [pre EXCEPT ![c] = state]
              /\ UNCHANGED <<tws, res>>
         ELSE IF websocket # None
           THEN /\ tws' = [tws EXCEPT ![c] = websocket]
                /\ pc' = [pc EXCEPT ![c] = "close_ws"]
                /\ pre' = [pre EXCEPT ![c] = state]
                /\ UNCHANGED <<cancelReq, waitOn, res>>
           ELSE /\ res' = [res EXCEPT ![c] = Ok("close")]
                /\ UNCHANGED <<pc, tws, cancelReq, waitOn, pre>>
  /\ wire' = NoFrame
  /\ UNCHANGED <<state, websocket, subscriptions, message_handlers, reconnect_attempts,
                 receive_task, total_messages_received, last_error>>
  /\ UNCHANGED <<chans, att, cur, pend, hidx>>
  /\ UNCHANGED <<wsStat, sentData, delays, delivered, taken>>
  /\ UNCHANGED calls

\* close() is called by a caller
CloseCall(c) ==
  /\ close_begin(c)
  /\ nops' = nops + 1
  /\ op' = [op EXCEPT ![c] = "close"]
  /\ Resume(c)

\* the cancelled receive task is done (289-291)
CloseAwaitDone(c) ==
  /\ pc[c] = "close_await"
  /\ Done(waitOn[c])
  /\ waitOn' = [waitOn EXCEPT ![c] = None]
  /\ IF pc[waitOn[c]] = "raised"          \* the task's exception leaves close()
       THEN /\ pc' = [pc EXCEPT ![c] = "idle"]
            /\ res' = [res EXCEPT ![c] = Fail("close", "task")]
            /\ pre' = [pre EXCEPT ![c] = "none"]
            /\ UNCHANGED tws
       ELSE IF websocket # None
         THEN /\ tws' = [tws EXCEPT ![c] = websocket]
              /\ pc' = [pc EXCEPT ![c] = "close_ws"]
              /\ UNCHANGED <<res, pre>>
         ELSE /\ pc' = [pc EXCEPT ![c] = "idle"]
              /\ res' = [res EXCEPT ![c] = Ok("close")]
              /\ pre' = [pre EXCEPT ![c] = "none"]
              /\ UNCHANGED tws
  /\ wire' = NoFrame
  /\ UNCHANGED connVars
  /\ UNCHANGED <<op, chans, att, cancelReq, cur, pend, hidx>>
  /\ UNCHANGED <<wsStat, sentData, nops, delays, delivered, taken>>
  /\ UNCHANGED calls
  /\ Resume(c)

\* websocket.close() is over (294): DISCONNECTED (295), close() returns
CloseWsDone(c) ==
  /\ pc[c] = "close_ws"
  /\ wsStat' = [wsStat EXCEPT ![tws[c]] = IF @ = "open" THEN "closed_ok" ELSE @]
  /\ state' = "disconnected"
  /\ pc' = [pc EXCEPT ![c] = "idle"]
  /\ res' = [res EXCEPT ![c] = Ok("close")]
  /\ pre' = [pre EXCEPT ![c] = "none"]
  /\ tws' = [tws EXCEPT ![c] = None]
  /\ wire' = NoFrame
  /\ UNCHANGED <<websocket, subscriptions, message_handlers, reconnect_attempts,
                 receive_task, message_buffer, total_messages_received, last_error>>
  /\ UNCHANGED <<op, chans, att, cancelReq, waitOn, cur, pend, hidx>>
  /\ UNCHANGED <<sentData, nops, delays, delivered, taken>>
  /\ UNCHANGED calls
  /\ Resume(c)

(* ---------------------- subscribe() / unsubscribe() -------------------- *)
\* fault variant of lines 163, 178: the state is not checked
AnyState(st) == TRUE

\* line 163 / 178: the state the two operations require
RequiredState(st) == st = "connected"

\* subscribe (163-167) or unsubscribe (178-184) to the send
SubCall(c, kind, channels) ==
  /\ pc[c] = "idle"
  /\ nops' = nops + 1
  /\ op' = [op EXCEPT ![c] = kind]
  /\ IF RequiredState(state) /\ IsOpen(websocket)
       THEN /\ wire' = OutFrame(kind, channels, websocket)
            /\ tws' = [tws EXCEPT ![c] = websocket]
            /\ chans' = [chans EXCEPT ![c] = channels]
            /\ pc' = [pc EXCEPT ![c] = "sub_send"]
            /\ UNCHANGED res
       ELSE /\ wire' = NoFrame      \* invalid state (164, 179), or send raises
            /\ res' = [res EXCEPT ![c] =
                          Fail(kind, IF RequiredState(state) THEN "send" ELSE "invalid_state")]
            /\ UNCHANGED <<tws, chans, pc>>
  /\ UNCHANGED connVars
  /\ UNCHANGED <<att, cancelReq, waitOn, cur, pend, hidx>>
  /\ UNCHANGED <<wsStat, sentData, delays, delivered, taken>>
  /\ UNCHANGED <<pre, calls, regVars>>

\* the send is over: subscriptions.update (169) or difference_update (186)
SubSendDone(c) ==
  /\ pc[c] = "sub_send"
  /\ IF IsOpen(tws[c])
       THEN /\ subscriptions' = IF op[c] = "subscribe"
                                  THEN SetUpdate(subscriptions, chans[c])
                                  ELSE SetDifferenceUpdate(subscriptions, chans[c])
            /\ calls' = Append(calls, <<op[c], chans[c]>>)
            /\ res' = [res EXCEPT ![c] = Ok(op[c])]
       ELSE /\ res' = [res EXCEPT ![c] = Fail(op[c], "send")]
            /\ UNCHANGED <<subscriptions, calls>>
  /\ pc' = [pc EXCEPT ![c] = "idle"]
  /\ tws' = [tws EXCEPT ![c] = None]
  /\ chans' = [chans EXCEPT ![c] = <<>>]
  /\ wire' = NoFrame
  /\ UNCHANGED <<state, websocket, message_handlers, reconnect_attempts, receive_task,
                 message_buffer, total_messages_received, last_error>>
  /\ UNCHANGED <<op, att, cancelReq, waitOn, cur, pend, hidx>>
  /\ UNCHANGED <<wsStat, sentData, nops, delays, delivered, taken>>
  /\ UNCHANGED <<pre, regVars>>

\* get_status (302-313): the key last_error is present when an error is stored
get_status ==
  IF last_error # "none"
    THEN [state |-> state, subscriptions |-> subscriptions, last_error |-> last_error]
    ELSE [state |-> state, subscriptions |-> subscriptions]

\* add_message_handler (300)
AddHandler ==
  /\ message_handlers' = Append(message_handlers, Len(message_handlers) + 1)
  /\ wire' = NoFrame
  /\ UNCHANGED <<state, websocket, subscriptions, reconnect_attempts, receive_task,
                 message_buffer, total_messages_received, last_error>>
  /\ UNCHANGED taskVars
  /\ UNCHANGED <<wsStat, sentData, nops, res, delays, delivered, taken>>
  /\ UNCHANGED <<pre, calls, regVars>>

(* --------------------------- the remote side --------------------------- *)
\* the remote side closes transport w, normally (code 1000) or with an error
RemoteClose(w, how) ==
  /\ wsStat[w] = "open"
  /\ w = websocket \/ \E t \in Tasks : tws[t] = w     \* a transport the program still uses
  /\ wsStat' = [wsStat EXCEPT ![w] = how]
  /\ wire' = NoFrame
  /\ UNCHANGED connVars
  /\ UNCHANGED taskVars
  /\ UNCHANGED <<sentData, nops, res, delays, delivered, taken>>
  /\ UNCHANGED <<pre, calls, regVars>>

(* --------------------------- ConnectionManager -------------------------- *)
\* fault variant of line 372: the lookup never finds the market
NeverRegistered(conns, market) == FALSE

\* line 372: market in self.connections
Registered(conns, market) == \E i \in DOMAIN conns : conns[i][1] = market

\* fault variant of line 373: the first value of the dict, whatever its key
LookupFirst(conns, market) == conns[1][2]

\* line 373: self.connections[market]
Lookup(conns, market) == conns[CHOOSE i \in DOMAIN conns : conns[i][1] = market][2]

\* fault variant of lines 376-377: the absent endpoint is passed on as it is
EndpointNotDerived(market) == "none"

\* line 377: the endpoint derived from the market
DefaultEndpoint(market) ==
  IF market = "stocks" THEN "wss://socket.polygon.io/stocks" ELSE "wss://socket.polygon.io/crypto"

\* line 382: self.connections[market] = connection (a dict keeps insertion order
\* and holds one value per key)
DictSet(conns, market, inst) ==
  IF \E i \in DOMAIN conns : conns[i][1] = market
    THEN [i \in DOMAIN conns |-> IF conns[i][1] = market THEN <<market, inst>> ELSE conns[i]]
    ELSE Append(conns, <<market, inst>>)

\* get_connection (372-383): it has no suspension point
get_connection(c, market, endpoint, api_key) ==
  /\ IF Registered(connections, market)
       THEN /\ got' = [got EXCEPT ![c] = [ok |-> TRUE, inst |-> Lookup(connections, market)]]
            /\ UNCHANGED <<connections, created, made>>
       ELSE IF api_key = "none"
         THEN /\ got' = [got EXCEPT ![c] = [ok |-> FALSE, inst |-> None]]   \* ValueError (379)
              /\ UNCHANGED <<connections, created, made>>
         ELSE LET new == Len(created) + 1 IN
              /\ created' = Append(created,
                     [market |-> market,
                      endpoint |-> IF endpoint = "none" THEN DefaultEndpoint(market) ELSE endpoint,
                      api_key |-> api_key])
              /\ connections' = DictSet(connections, market, new)
              /\ made' = [made EXCEPT ![market] = @ \cup {new}]
              /\ got' = [got EXCEPT ![c] = [ok |-> TRUE, inst |-> new]]
  \* the record of the caller's last close_all is kept until its next call
  /\ sweep' = [sweep EXCEPT ![c] = IF @.pos = 0 THEN NoSweep ELSE @]
  /\ UNCHANGED <<connVars, taskVars, envVars, obsVars>>

\* close_all is called (385-390): the for loop closes the connections in the
\* order of the dict until a close() suspends, which only that of the live
\* connection can; when none suspends the dict is cleared and close_all returns
close_all(c) ==
  /\ pc[c] = "idle" /\ sweep[c].pos = 0
  /\ LET i == LivePos(connections)
         before == {connections[j][2] : j \in {k \in DOMAIN connections : k < i}}
         begun == [sweep EXCEPT ![c] = [pos |-> IF i = 0 THEN 1 ELSE i,
                                        size |-> Len(connections),
                                        reg |-> Instances(connections),
                                        closed |-> {}]]
     IN IF i = 0
          THEN /\ close_all_end(c, begun, 1)
               /\ UNCHANGED <<connVars, taskVars, envVars, obsVars>>
          ELSE /\ close_begin(c)
               /\ UNCHANGED <<op, nops>>
               /\ IF pc'[c] = "idle"
                    THEN close_all_end(c, NoteClosed(begun, before \cup {Live}), i + 1)
                    ELSE /\ sweep' = NoteClosed(begun, before)
                         /\ UNCHANGED <<connections, created, made, got>>

(* ---------------------- the lifecycle specification -------------------- *)
\* One caller drives the connection through connect() and close(), one call
\* after the other, while the remote side accepts or refuses transports,
\* accepts or rejects the credential, sends frames and closes transports.
LifeAuthFrames ==
  { ListFrame(<<StatusMsg("auth_success", "authenticated")>>),
    ListFrame(<<StatusMsg("auth_failed", "Invalid API key")>>) }

LifeFrames(n) ==
  { ListFrame(<<DataMsg(n + 1)>>),
    ListFrame(<<StatusMsg("error", "no access")>>) }

\* the caps of the counters that the program leaves unbounded
Within(A) ==
  /\ A
  /\ nops' <= MaxOps
  /\ reconnect_attempts' <= MaxAttempts
  /\ sentData' <= MaxData
  /\ Cardinality({w \in Transports : wsStat'[w] # "unopened"}) <= MaxWs

Next ==
  \/ Within(\E c \in Driver : ConnectCall(c))
  \/ Within(\E t \in Tasks : SleepDone(t))
  \/ Within(\E t \in Tasks : OpenAccepted(t))
  \/ Within(\E t \in Tasks : OpenRefused(t))
  \/ Within(\E t \in Tasks : AuthSendDone(t))
  \/ Within(\E t \in Tasks : \E f \in LifeAuthFrames : AuthRecv(t, f))
  \/ Within(\E t \in Tasks : AuthRecvClosed(t))
  \/ Within(\E t \in Tasks : AwaitOldDone(t))
  \/ Within(\E t \in Tasks : AwaitOldCancelled(t))
  \/ Within(\E t \in RTasks : Cancelled(t))
  \/ Within(\E t \in RTasks : RecvStart(t))
  \/ Within(\E t \in RTasks : \E f \in LifeFrames(sentData) : RecvFrame(t, f))
  \/ Within(\E t \in RTasks : RecvClosed(t))
  \/ Within(\E c \in Driver : CloseCall(c))
  \/ Within(\E c \in Callers : CloseAwaitDone(c))
  \/ Within(\E c \in Callers : CloseWsDone(c))
  \/ Within(\E w \in Transports : \E how \in {"closed_ok", "closed_err"} : RemoteClose(w, how))

Spec == Init /\ [][Next]_vars

(* ------------------ the specification of concurrent callers ------------ *)
\* Two callers call connect() and close() on the same connection at any time;
\* the remote side accepts or refuses transports, authenticates every
\* connect and sends data.
RaceAuthFrames == { ListFrame(<<StatusMsg("auth_success", "authenticated")>>) }

RaceFrames(n) == { ListFrame(<<DataMsg(n + 1)>>) }

InRace(A) ==
  /\ A
  /\ nops' <= RaceOps
  /\ reconnect_attempts' <= RaceAttempts
  /\ sentData' <= RaceData

NextRace ==
  \/ InRace(\E c \in Callers : ConnectCall(c))
  \/ InRace(\E t \in Tasks : SleepDone(t))
  \/ InRace(\E t \in Tasks : OpenAccepted(t))
  \/ InRace(\E t \in Tasks : OpenRefused(t))
  \/ InRace(\E t \in Tasks : AuthSendDone(t))
  \/ InRace(\E t \in Tasks : \E f \in RaceAuthFrames : AuthRecv(t, f))
  \/ InRace(\E t \in Tasks : AwaitOldDone(t))
  \/ InRace(\E t \in RTasks : Cancelled(t))
  \/ InRace(\E t \in RTasks : RecvStart(t))
  \/ InRace(\E t \in RTasks : \E f \in RaceFrames(sentData) : RecvFrame(t, f))
  \/ InRace(\E c \in Callers : CloseCall(c))
  \/ InRace(\E c \in Callers : CloseAwaitDone(c))
  \/ InRace(\E c \in Callers : CloseWsDone(c))

SpecRace == Init /\ [][NextRace]_vars

(* --------------------- the specification of the backoff ---------------- *)
\* One connect() call; the remote side refuses transports, rejects or accepts
\* the credential and breaks the transport of the connected client, so that
\* the caller's connect() and then the receive task retry again and again.
InBackoff(A) ==
  /\ A
  /\ nops' <= BackoffOps
  /\ reconnect_attempts' <= BackoffAttempts

NextBackoff ==
  \/ InBackoff(\E c \in Driver : ConnectCall(c))
  \/ InBackoff(\E t \in Tasks : SleepDone(t))
  \/ InBackoff(\E t \in Tasks : OpenAccepted(t))
  \/ InBackoff(\E t \in Tasks : OpenRefused(t))
  \/ InBackoff(\E t \in Tasks : AuthSendDone(t))
  \/ InBackoff(\E t \in Tasks : \E f \in LifeAuthFrames : AuthRecv(t, f))
  \/ InBackoff(\E t \in Tasks : AwaitOldCancelled(t))
  \/ InBackoff(\E t \in RTasks : RecvStart(t))
  \/ InBackoff(\E t \in RTasks : RecvClosed(t))
  \/ InBackoff(\E w \in Transports : RemoteClose(w, "closed_err"))

SpecBackoff == Init /\ [][NextBackoff]_vars

(* ------------------- the specification of subscriptions ---------------- *)
\* A caller connects, subscribes, unsubscribes and connects again; the remote
\* side accepts every connect and may break the transport, after which the
\* receive task reconnects and resubscribes.
InSub(A) ==
  /\ A
  /\ nops' <= SubOps
  /\ reconnect_attempts' <= SubAttempts
  /\ Cardinality({w \in Transports : wsStat'[w] # "unopened"}) <= SubWs

NextSub ==
  \/ InSub(\E c \in Driver : ConnectCall(c))
  \/ InSub(\E c \in Driver : \E k \in {"subscribe", "unsubscribe"} :
             \E l \in ChannelLists : SubCall(c, k, l))
  \/ InSub(\E c \in Driver : SubSendDone(c))
  \/ InSub(\E t \in Tasks : SleepDone(t))
  \/ InSub(\E t \in Tasks : OpenAccepted(t))
  \/ InSub(\E t \in Tasks : AuthSendDone(t))
  \/ InSub(\E t \in Tasks : \E f \in RaceAuthFrames : AuthRecv(t, f))
  \/ InSub(\E t \in Tasks : AwaitOldCancelled(t))
  \/ InSub(\E t \in Tasks : AwaitOldDone(t))
  \/ InSub(\E t \in RTasks : Cancelled(t))
  \/ InSub(\E t \in Tasks : ResubSendDone(t))
  \/ InSub(\E t \in RTasks : RecvStart(t))
  \/ InSub(\E t \in RTasks : RecvClosed(t))
  \/ InSub(\E w \in Transports : RemoteClose(w, "closed_err"))

SpecSub == Init /\ [][NextSub]_vars

(* --------------------- the specification of the buffer ----------------- *)
\* One connect(); the remote side then sends more data messages than the
\* buffer holds, in frames of one or two, mixed with status messages.  No
\* handler is registered and close() is not called.
BufFrames(n) ==
  { ListFrame(<<DataMsg(n + 1)>>),
    ListFrame(<<DataMsg(n + 1), DataMsg(n + 2)>>),
    ListFrame(<<StatusMsg("success", "subscribed"), DataMsg(n + 1)>>),
    ListFrame(<<DataMsg(n + 1), StatusMsg("error", "no access")>>),
    ListFrame(<<StatusMsg("success", "subscribed")>>) }

InBuf(A) ==
  /\ A
  /\ nops' <= BufOps
  /\ sentData' <= BufData

NextBuf ==
  \/ InBuf(\E c \in Driver : ConnectCall(c))
  \/ InBuf(\E t \in Tasks : OpenAccepted(t))
  \/ InBuf(\E t \in Tasks : AuthSendDone(t))
  \/ InBuf(\E t \in Tasks : \E f \in RaceAuthFrames : AuthRecv(t, f))
  \/ InBuf(\E t \in RTasks : RecvStart(t))
  \/ InBuf(\E t \in RTasks : \E f \in BufFrames(sentData) : RecvFrame(t, f))

SpecBuf == Init /\ [][NextBuf]_vars

(* -------------------- the specification of the routing ----------------- *)
\* One connect(); handlers are registered at any time; the remote side sends
\* every kind of frame; a handler returns or raises.
InRoute(A) ==
  /\ A
  /\ nops' <= RouteOps
  /\ sentData' <= RouteData
  /\ Len(message_handlers') <= RouteHandlers

NextRoute ==
  \/ InRoute(\E c \in Driver : ConnectCall(c))
  \/ InRoute(\E t \in Tasks : OpenAccepted(t))
  \/ InRoute(\E t \in Tasks : AuthSendDone(t))
  \/ InRoute(\E t \in Tasks : \E f \in RaceAuthFrames : AuthRecv(t, f))
  \/ InRoute(AddHandler)
  \/ InRoute(\E t \in RTasks : RecvStart(t))
  \/ InRoute(\E t \in RTasks : \E f \in LoopFrames(sentData) : RecvFrame(t, f))
  \/ InRoute(\E t \in RTasks : HandlerDone(t))
  \/ InRoute(\E t \in RTasks : HandlerRaises(t))

SpecRoute == Init /\ [][NextRoute]_vars

(* -------------------- the specification of the registry ---------------- *)
\* The callers ask the manager for connections of two markets, with and
\* without endpoint and credential, and close all of them.
InReg(A) ==
  /\ A
  /\ Len(created') <= MaxInst

NextReg ==
  \/ InReg(\E c \in Callers : \E m \in Markets : \E e \in Endpoints : \E k \in Keys :
             get_connection(c, m, e, k))
  \/ InReg(\E c \in Callers : close_all(c))

SpecReg == Init /\ [][NextReg]_vars

(* --------------- the specification of the reuse after close() ---------- *)
\* One caller connects, subscribes, closes and connects again; a handler may
\* be registered before the first call; the remote side accepts and
\* authenticates every connect, sends data and may break a transport, after
\* which the receive task waits in its backoff sleep.
InReuse(A) ==
  /\ A
  /\ nops' <= ReuseOps
  /\ reconnect_attempts' <= ReuseAttempts
  /\ sentData' <= ReuseData
  /\ Len(message_handlers') <= ReuseHandlers
  /\ Cardinality({w \in Transports : wsStat'[w] # "unopened"}) <= ReuseWs

NextReuse ==
  \/ InReuse(\E c \in Driver : ConnectCall(c))
  \/ InReuse(\E c \in Driver : \E l \in ChannelLists : SubCall(c, "subscribe", l))
  \/ InReuse(\E c \in Driver : SubSendDone(c))
  \/ InReuse(nops = 0 /\ AddHandler)
  \/ InReuse(\E t \in Tasks : OpenAccepted(t))
  \/ InReuse(\E t \in Tasks : AuthSendDone(t))
  \/ InReuse(\E t \in Tasks : \E f \in RaceAuthFrames : AuthRecv(t, f))
  \/ InReuse(\E t \in Tasks : AwaitOldDone(t))
  \/ InReuse(\E t \in Tasks : ResubSendDone(t))
  \/ InReuse(\E t \in RTasks : Cancelled(t))
  \/ InReuse(\E t \in RTasks : RecvStart(t))
  \/ InReuse(\E t \in RTasks : \E f \in RaceFrames(sentData) : RecvFrame(t, f))
  \/ InReuse(\E t \in RTasks : HandlerDone(t))
  \/ InReuse(\E t \in RTasks : RecvClosed(t))
  \/ InReuse(\E w \in Transports : RemoteClose(w, "closed_err"))
  \/ InReuse(\E c \in Driver : CloseCall(c))
  \/ InReuse(\E c \in Callers : CloseAwaitDone(c))
  \/ InReuse(\E c \in Callers : CloseWsDone(c))

SpecReuse == Init /\ [][NextReuse]_vars

(* -------------------- the specification of the shutdown ---------------- *)
\* One caller registers connections for two markets and connects the first
\* of them, whose transport the remote side may refuse or break; the other
\* caller calls close_all at any time, and the first caller may register a
\* connection while a close_all is suspended.
InAll(A) ==
  /\ A
  /\ nops' <= AllOps
  /\ reconnect_attempts' <= AllAttempts
  /\ Cardinality({w \in Transports : wsStat'[w] # "unopened"}) <= AllWs
  /\ Len(created') <= AllInst

NextAll ==
  \/ InAll(\E c \in Driver : \E m \in Markets : get_connection(c, m, "none", "key1"))
  \/ InAll(\E c \in Driver : got[c].inst = Live /\ ConnectCall(c))
  \/ InAll(\E t \in Tasks : SleepDone(t))
  \/ InAll(\E t \in Tasks : OpenAccepted(t))
  \/ InAll(\E t \in Tasks : OpenRefused(t))
  \/ InAll(\E t \in Tasks : AuthSendDone(t))
  \/ InAll(\E t \in Tasks : \E f \in RaceAuthFrames : AuthRecv(t, f))
  \/ InAll(\E t \in Tasks : AwaitOldCancelled(t))
  \/ InAll(\E t \in RTasks : Cancelled(t))
  \/ InAll(\E t \in RTasks : RecvStart(t))
  \/ InAll(\E t \in RTasks : RecvClosed(t))
  \/ InAll(\E w \in Transports : RemoteClose(w, "closed_err"))
  \/ InAll(\E c \in Callers \ Driver : close_all(c))
  \/ InAll(\E c \in Callers : CloseAwaitDone(c))
  \/ InAll(\E c \in Callers : CloseWsDone(c))

SpecAll == Init /\ [][NextAll]_vars

(* ------------- the specification of delivery, concurrent callers -------- *)
\* A handler is registered first.  Two callers then call connect() at any
\* time; the remote side accepts and authenticates every connect and sends
\* data messages, one in a frame, on any transport a receive task reads.
InDeliver(A) ==
  /\ A
  /\ nops' <= DeliverOps
  /\ sentData' <= DeliverData
  /\ Len(message_handlers') <= DeliverHandlers

NextDeliver ==
  \/ InDeliver(nops = 0 /\ AddHandler)
  \/ InDeliver(message_handlers # <<>> /\ \E c \in Callers : ConnectCall(c))
  \/ InDeliver(\E t \in Tasks : OpenAccepted(t))
  \/ InDeliver(\E t \in Tasks : AuthSendDone(t))
  \/ InDeliver(\E t \in Tasks : \E f \in RaceAuthFrames : AuthRecv(t, f))
  \/ InDeliver(\E t \in Tasks : AwaitOldDone(t))
  \/ InDeliver(\E t \in RTasks : Cancelled(t))
  \/ InDeliver(\E t \in RTasks : RecvStart(t))
  \/ InDeliver(\E t \in RTasks : \E f \in RaceFrames(sentData) : RecvFrame(t, f))
  \/ InDeliver(\E t \in RTasks : HandlerDone(t))

SpecDeliver == Init /\ [][NextDeliver]_vars

(* ------------------ the specification of authentication ---------------- *)
\* The caller connects once; the remote side accepts every transport and
\* answers the auth request with any sequence of the frames of AuthFrames and may break a
\* transport; a connect() that failed is retried by the reconnection routine.
InAuth(A) ==
  /\ A
  /\ reconnect_attempts' <= AuthAttempts

NextAuth ==
  \/ InAuth(nops = 0 /\ \E c \in Driver : ConnectCall(c))
  \/ InAuth(\E t \in Tasks : SleepDone(t))
  \/ InAuth(\E t \in Tasks : OpenAccepted(t))
  \/ InAuth(\E t \in Tasks : AuthSendDone(t))
  \/ InAuth(\E t \in Tasks : \E f \in AuthFrames : AuthRecv(t, f))
  \/ InAuth(\E t \in Tasks : AuthRecvClosed(t))
  \/ InAuth(\E t \in Tasks : AwaitOldCancelled(t))
  \/ InAuth(\E t \in RTasks : RecvStart(t))
  \/ InAuth(\E t \in RTasks : RecvClosed(t))
  \/ InAuth(\E w \in Transports : RemoteClose(w, "closed_err"))

SpecAuth == Init /\ [][NextAuth]_vars

(* ------------- the specification of the connection's identity ---------- *)
\* The first caller asks for connections with the default endpoint and one
\* credential, the second caller with a custom endpoint and another
\* credential, for either market and in any order; the first caller connects
\* and closes the connection it holds when that is the first one constructed,
\* while the remote side may refuse or break the transport.
InKeep(A) ==
  /\ A
  /\ nops' <= KeepOps
  /\ reconnect_attempts' <= KeepAttempts
  /\ Cardinality({w \in Transports : wsStat'[w] # "unopened"}) <= KeepWs
  /\ Len(created') <= KeepInst

NextKeep ==
  \/ InKeep(\E c \in Driver : \E m \in Markets : get_connection(c, m, "none", "key1"))
  \/ InKeep(\E c \in Callers \ Driver : \E m \in Markets :
              get_connection(c, m, "wss://custom", "key2"))
  \/ InKeep(\E c \in Driver : got[c].inst = Live /\ ConnectCall(c))
  \/ InKeep(\E t \in Tasks : SleepDone(t))
  \/ InKeep(\E t \in Tasks : OpenAccepted(t))
  \/ InKeep(\E t \in Tasks : OpenRefused(t))
  \/ InKeep(\E t \in Tasks : AuthSendDone(t))
  \/ InKeep(\E t \in Tasks : \E f \in RaceAuthFrames : AuthRecv(t, f))
  \/ InKeep(\E t \in Tasks : AwaitOldCancelled(t))
  \/ InKeep(\E t \in RTasks : Cancelled(t))
  \/ InKeep(\E t \in RTasks : RecvStart(t))
  \/ InKeep(\E t \in RTasks : RecvClosed(t))
  \/ InKeep(\E w \in Transports : RemoteClose(w, "closed_err"))
  \/ InKeep(\E c \in Driver : got[c].inst = Live /\ CloseCall(c))
  \/ InKeep(\E c \in Callers : CloseAwaitDone(c))
  \/ InKeep(\E c \in Callers : CloseWsDone(c))

SpecKeep == Init /\ [][NextKeep]_vars

(* ------------- the specification of the buffer across close() ---------- *)
\* One caller connects, closes and connects again, in any order; the remote
\* side accepts and authenticates every connect and sends data messages, in
\* frames of one or two and mixed with status messages, more of them than the
\* buffer holds.  No handler is registered.
InWin(A) ==
  /\ A
  /\ nops' <= WinOps
  /\ sentData' <= WinData
  /\ Cardinality({w \in Transports : wsStat'[w] # "unopened"}) <= WinWs

NextWin ==
  \/ InWin(\E c \in Driver : ConnectCall(c))
  \/ InWin(\E t \in Tasks : OpenAccepted(t))
  \/ InWin(\E t \in Tasks : AuthSendDone(t))
  \/ InWin(\E t \in Tasks : \E f \in RaceAuthFrames : AuthRecv(t, f))
  \/ InWin(\E t \in Tasks : AwaitOldDone(t))
  \/ InWin(\E t \in RTasks : Cancelled(t))
  \/ InWin(\E t \in RTasks : RecvStart(t))
  \/ InWin(\E t \in RTasks : \E f \in BufFrames(sentData) : RecvFrame(t, f))
  \/ InWin(\E c \in Driver : CloseCall(c))
  \/ InWin(\E c \in Callers : CloseAwaitDone(c))
  \/ InWin(\E c \in Callers : CloseWsDone(c))

SpecWin == Init /\ [][NextWin]_vars

(* ------------------ the specification of the retry, fair ---------------- *)
\* The caller connects once and never closes; from then on only the
\* reconnection routine connects.  The remote side refuses or accepts the
\* transport, answers the auth request with auth_success, auth_failed or a
\* connected status, and may break a transport.  The counters are capped: a
\* transport is broken only while the failure it causes can be counted, and a
\* failure happens only while another transport can still be opened.
LiveAuthFrames ==
  { ListFrame(<<StatusMsg("auth_success", "authenticated")>>),
    ListFrame(<<StatusMsg("auth_failed", "Invalid API key")>>),
    ListFrame(<<StatusMsg("connected", "Connected Successfully")>>) }

InLive(A) ==
  /\ A
  /\ reconnect_attempts' <= LiveAttempts
  /\ (\E t \in Tasks : pc'[t] = "sleep")
       => Cardinality({w \in Transports : wsStat'[w] # "unopened"}) < LiveWs

NextLive ==
  \/ InLive(nops = 0 /\ \E c \in Driver : ConnectCall(c))
  \/ InLive(\E t \in Tasks : SleepDone(t))
  \/ InLive(\E t \in Tasks : OpenAccepted(t))
  \/ InLive(\E t \in Tasks : OpenRefused(t))
  \/ InLive(\E t \in Tasks : AuthSendDone(t))
  \/ InLive(\E t \in Tasks : \E f \in LiveAuthFrames : AuthRecv(t, f))
  \/ InLive(\E t \in Tasks : AuthRecvClosed(t))
  \/ InLive(\E t \in Tasks : AwaitOldCancelled(t))
  \/ InLive(\E t \in RTasks : RecvStart(t))
  \/ InLive(\E t \in RTasks : RecvClosed(t))
  \/ InLive(Cardinality(Opened) < LiveWs /\ reconnect_attempts < LiveAttempts
              /\ \E w \in Transports : RemoteClose(w, "closed_err"))

\* Scheduling: the event loop resumes every coroutine that can go on.  A timer
\* that ran out (asyncio.sleep, 271), a finished send (130), a receive task that
\* was created (110), a read on a broken transport (137, 202) and a wait for a
\* task that ended (105) are resumed after finitely many steps of others.
Scheduling ==
  /\ WF_vars(InLive(\E t \in Tasks : SleepDone(t)))
  /\ WF_vars(InLive(\E t \in Tasks : AuthSendDone(t)))
  /\ WF_vars(InLive(\E t \in Tasks : AuthRecvClosed(t)))
  /\ WF_vars(InLive(\E t \in Tasks : AwaitOldCancelled(t)))
  /\ WF_vars(InLive(\E t \in RTasks : RecvStart(t)))
  /\ WF_vars(InLive(\E t \in RTasks : RecvClosed(t)))

SpecLive == Init /\ [][NextLive]_vars /\ Scheduling

(* ================================ claims ================================ *)
\* receive task t is in its loop on an open transport and was not cancelled
InLoop(t) == pc[t] \in {"recv", "handler"} /\ IsOpen(tws[t]) /\ ~cancelReq[t]

\* C1: for every interleaving of connect() calls, remote closures and close()
\* on one connection, at most one receive loop is running and delivering
\* messages at any time.
C1_OneReceiveLoop == Cardinality({t \in RTasks : InLoop(t)}) <= 1

\* C2: for every sequence and interleaving of get_connection calls the registry
\* holds at most one connection per market, exactly one connection is ever
\* constructed for a market while it stays registered, and every call for that
\* market returns that same instance.
C2_OneConnectionPerMarket ==
  [][/\ \A i, j \in DOMAIN connections' :
          connections'[i][1] = connections'[j][1] => i = j
     /\ \A i \in DOMAIN connections' : made'[connections'[i][1]] = {connections'[i][2]}
     /\ \A c \in Callers, m \in Markets, e \in Endpoints, k \in Keys :
          (get_connection(c, m, e, k) /\ \E i \in DOMAIN connections : connections[i][1] = m)
            => /\ \E i \in DOMAIN connections :
                    /\ connections[i][1] = m
                    /\ got'[c] = [ok |-> TRUE, inst |-> connections[i][2]]
               /\ created' = created /\ connections' = connections]_vars

\* C2's case: both markets are registered, one of them for the second time
\* (after a close_all), and both callers were handed the same instance
C2_Witness ==
  /\ Len(connections) = 2 /\ Len(created) = 3
  /\ got[101].ok /\ got[101].inst # None /\ got[102] = got[101]

\* the fold of a sequence of completed calls over a set of channels
RECURSIVE FoldCalls(_, _)
FoldCalls(q, acc) ==
  IF q = <<>> THEN acc
  ELSE LET named == {Head(q)[2][i] : i \in DOMAIN Head(q)[2]}
       IN FoldCalls(Tail(q), IF Head(q)[1] = "subscribe" THEN acc \cup named ELSE acc \ named)

\* C3: for every sequence of subscribe and unsubscribe calls made while
\* Connected, subscriptions is the fold of those calls from the prior (empty)
\* set, subscribe as set union and unsubscribe as set difference; duplicates
\* and channels already absent have no extra effect.
C3_SubscriptionsAreTheFold == subscriptions = FoldCalls(calls, {})

\* C3's case: a subscribe of two channels, later an unsubscribe that names one
\* of them twice
C3_Witness ==
  /\ subscriptions = {"T.A"}
  /\ \E i, j \in DOMAIN calls :
       /\ i < j
       /\ calls[i] = <<"subscribe", <<"T.A", "Q.B">>>>
       /\ calls[j] = <<"unsubscribe", <<"Q.B", "Q.B">>>>

\* C4: subscribe() or unsubscribe() called in any state other than Connected
\* fails with an invalid-state error, sends no frame and leaves subscriptions
\* and state unchanged.
C4_InvalidStateRejected ==
  [][\A c \in Callers, k \in {"subscribe", "unsubscribe"}, l \in ChannelLists :
       (SubCall(c, k, l) /\ state # "connected")
         => /\ pc'[c] = "idle" /\ res'[c] = Fail(k, "invalid_state")
            /\ wire' = NoFrame
            /\ subscriptions' = subscriptions /\ state' = state]_vars

\* C4's case: the call was made, and rejected, while a reconnection was
\* authenticating on an open transport
C4_Witness ==
  /\ state = "authenticating" /\ IsOpen(websocket)
  /\ \E c \in Callers : res[c].err = "invalid_state"

\* the limits asked of get_recent_messages
RecentLimits == {-1, 0, 1, 2, 10, 99, 100, 101, 150}

\* C5: after N data messages were received with buffer capacity C and no
\* close(), get_message_stats reports total_received = N and buffered =
\* min(N, C), and get_recent_messages(k) is the last min(k, buffered) received
\* data messages, oldest first (empty when k <= 0 or the buffer is empty).
C5_StatsAndRecentMessages ==
  LET N == sentData
      B == IF N <= buffer_maxlen THEN N ELSE buffer_maxlen
  IN /\ get_message_stats.total_received = N
     /\ get_message_stats.buffered = B
     /\ \A k \in RecentLimits :
          LET n == IF k <= 0 THEN 0 ELSE IF k <= B THEN k ELSE B
          IN get_recent_messages(message_buffer, k) = [i \in 1..n |-> DataMsg(N - n + i)]

\* C5's case: more messages were received than the buffer holds
C5_Witness ==
  /\ sentData > buffer_maxlen
  /\ Len(message_buffer) = buffer_maxlen
  /\ message_buffer[1] = DataMsg(sentData - buffer_maxlen + 1)

\* C6: in every reachable state no status message is in message_buffer, none
\* was counted in total_messages_received and none was passed to a handler.
C6_StatusNeverBufferedOrRouted ==
  /\ \A i \in DOMAIN message_buffer : message_buffer[i].ev # "status"
  /\ \A i \in DOMAIN delivered : delivered[i][2] # "status"
  /\ total_messages_received <= sentData

\* C6's case: data and status messages, one of them an access error, were
\* received while a handler was registered
C6_Witness ==
  /\ last_error # "none"
  /\ Len(delivered) >= 2 /\ total_messages_received >= 2

\* C7: from reconnect_attempts = 0 the delays waited before consecutive failed
\* attempts are 1, 2, 4, 8, 16, 30, 30, ... and reconnect_attempts grows by
\* exactly one per failed attempt.
C7_BackoffSequence ==
  /\ Len(delays) = reconnect_attempts
  /\ \A i \in DOMAIN delays : delays[i] = (IF i <= 5 THEN 2^(i - 1) ELSE 30)

\* C7's case: seven attempts failed in a row
C7_Witness == Len(delays) >= 7 /\ delays[6] = 30 /\ delays[7] = 30

\* the step in which task t reads the frame that ends its authentication well
AuthSucceeds(t) == \E f \in AuthFrames : AuthScan(f) = "success" /\ AuthRecv(t, f)

\* the step in which task t's authentication fails: auth_failed is read, or
\* the last frame of the read budget holds no answer
AuthFails(t) ==
  \E f \in AuthFrames :
    /\ AuthRecv(t, f)
    /\ \/ AuthScan(f) = "failed"
       \/ AuthScan(f) = "continue" /\ att[t] + 1 >= max_attempts

\* C8: every successful connect() (every step that authenticates and makes the
\* state Connected), by a caller or by the reconnection routine after any
\* number of failures, leaves reconnect_attempts = 0, so that the next failure
\* waits 1 second again.
C8_SuccessResetsAttempts ==
  [][\A t \in Tasks :
       ((AuthSucceeds(t) \/ state # "connected") /\ state' = "connected")
         => (reconnect_attempts' = 0 /\ BackoffDelay(reconnect_attempts') = 1)]_vars

\* C8's case: the reconnection routine, running in the receive task after at
\* least one failure, has just authenticated (it waits at line 105 on itself)
C8_Witness ==
  /\ state = "connected" /\ reconnect_attempts = 0
  /\ \E t \in RTasks : pc[t] = "await_old" /\ waitOn[t] = t

\* C9: when a caller's connect() is authenticating and the remote side answers
\* auth_failed (or gives no answer within the read budget), that connect() call
\* fails, i.e. it returns to its caller with a failure, and state is Error.
C9_AuthFailureReported ==
  [][\A c \in Callers :
       AuthFails(c) => (state' = "error" /\ pc'[c] = "idle"
                        /\ res'[c].op = "connect" /\ ~res'[c].ok)]_vars

\* the step in which caller c's close() returns, and the state it was called in
CloseReturns(c) ==
  /\ CloseCall(c) \/ CloseAwaitDone(c) \/ CloseWsDone(c)
  /\ pc'[c] = "idle" /\ res'[c] = Ok("close")
CloseFrom(c) == IF pc[c] = "idle" THEN state ELSE pre[c]

\* C10: from every reachable state in which state is Connected or Error, when
\* close() returns the state is Disconnected, the message buffer is empty, no
\* receive loop is running and the transport, if one was open, is closed.
C10_CloseDisconnects ==
  [][\A c \in Callers :
       (CloseReturns(c) /\ CloseFrom(c) \in {"connected", "error"})
         => /\ state' = "disconnected"
            /\ message_buffer' = <<>>
            /\ \A t \in RTasks : pc'[t] \notin {"start", "recv", "handler"}
            /\ websocket' # None => wsStat'[websocket'] # "open"]_vars

\* a step of caller c's close(), and the step in which it ends
CloseStep(c) == CloseCall(c) \/ CloseAwaitDone(c) \/ CloseWsDone(c)

\* C11: close() called on a connection whose state is Disconnected (never
\* connected, or closed before) does not fail and changes nothing: none of its
\* steps changes subscriptions, the counters, the buffer or the handlers, the
\* state it leaves is Disconnected, and it returns without an error.
C11_CloseIdempotent ==
  [][\A c \in Callers :
       (CloseStep(c) /\ CloseFrom(c) = "disconnected")
         => /\ state' = "disconnected"
            /\ subscriptions' = subscriptions
            /\ total_messages_received' = total_messages_received
            /\ reconnect_attempts' = reconnect_attempts
            /\ message_handlers' = message_handlers
            /\ message_buffer' = message_buffer
            /\ pc'[c] = "idle" => res'[c] = Ok("close")]_vars

\* the step in which caller c's close_all returns to its caller
CloseAllReturns(c) ==
  /\ close_all(c) \/ CloseAwaitDone(c) \/ CloseWsDone(c)
  /\ close_all(c) \/ sweep[c].pos > 0
  /\ sweep'[c].pos = 0 /\ got'[c].ok

\* C12: when close_all returns, close() has been called and has completed on
\* every connection that was registered when it was called, whatever state
\* each was in, and the dict of the registry is empty.
C12_CloseAllClosesAll ==
  [][\A c \in Callers :
       CloseAllReturns(c)
         => /\ connections' = <<>>
            /\ sweep'[c].reg \subseteq sweep'[c].closed]_vars

\* C12's case: close_all has returned after it closed two registered
\* connections, one never connected and one whose receive task it cancelled in
\* the middle of a reconnection
C12_Witness ==
  \E c \in Callers :
    /\ sweep[c].pos = 0 /\ sweep[c].reg = {1, 2} /\ got[c].ok
    /\ connections = <<>>
    /\ state = "disconnected" /\ reconnect_attempts = 1
    /\ receive_task # None /\ pc[receive_task] = "cancelled"

\* C13: get_connection for a market that is not registered fails with the
\* configuration error when no credential is given, and then leaves the
\* registry as it was (nothing constructed, no entry); with a credential and no
\* endpoint it registers a new connection for the market whose endpoint is the
\* default derived from the market.
C13_NewConnectionNeedsCredential ==
  [][\A c \in Callers, m \in Markets, e \in Endpoints, k \in Keys :
       (get_connection(c, m, e, k) /\ ~\E i \in DOMAIN connections : connections[i][1] = m)
         => /\ k = "none"
                 => /\ got'[c] = [ok |-> FALSE, inst |-> None]
                    /\ connections' = connections /\ created' = created
            /\ (k # "none" /\ e = "none")
                 => /\ got'[c].ok /\ got'[c].inst = Len(created) + 1
                    /\ Len(created') = Len(created) + 1
                    /\ connections' = Append(connections, <<m, got'[c].inst>>)
                    /\ created'[got'[c].inst].market = m
                    /\ created'[got'[c].inst].api_key = k
                    /\ created'[got'[c].inst].endpoint =
                         (IF m = "stocks" THEN "wss://socket.polygon.io/stocks"
                                          ELSE "wss://socket.polygon.io/crypto")]_vars

\* C13's case: a call without a credential has failed for a market that is not
\* registered, and the other caller holds a connection that was registered
\* with the derived endpoint
C13_Witness ==
  /\ ~got[101].ok
  /\ got[102].inst # None
  /\ created[got[102].inst].endpoint = "wss://socket.polygon.io/crypto"
  /\ connections = <<<<"crypto", got[102].inst>>>>

\* the step in which caller c's connect(), authenticated, gets past the
\* previous receive task (102-107) and reaches line 110
ConnectGoesOn(c) ==
  \/ AuthSucceeds(c) /\ (receive_task = None \/ Done(receive_task))
  \/ AwaitOldDone(c) /\ pc[waitOn[c]] # "raised"

\* C14: close() clears the message buffer and nothing else: none of its steps
\* changes subscriptions, total_messages_received, reconnect_attempts or the
\* handler list; and a caller's connect() that has authenticated with a
\* non-empty subscriptions set, on a transport that is still open, sends a
\* subscribe request that names the whole set, which it leaves as it is.
C14_CloseClearsOnlyBuffer ==
  [][\A c \in Callers :
       /\ CloseStep(c)
            => /\ subscriptions' = subscriptions
               /\ total_messages_received' = total_messages_received
               /\ reconnect_attempts' = reconnect_attempts
               /\ message_handlers' = message_handlers
       /\ CloseCall(c) => message_buffer' = <<>>
       /\ (ConnectGoesOn(c) /\ subscriptions # {} /\ IsOpen(websocket))
            => /\ pc'[c] = "resub_send"
               /\ wire'.action = "subscribe" /\ wire'.ws = websocket
               /\ Range(wire'.params) = subscriptions
               /\ subscriptions' = subscriptions]_vars

\* C14's case: after a subscribe of two channels, a received message and a
\* close(), the caller's second connect() has sent the request for both
\* channels
C14_Witness ==
  \E c \in Callers :
    /\ pc[c] = "resub_send" /\ op[c] = "connect"
    /\ Range(chans[c]) = {"T.A", "Q.B"} /\ subscriptions = {"T.A", "Q.B"}
    /\ \E w \in Transports : wsStat[w] = "closed_ok"
    /\ message_buffer = <<>> /\ total_messages_received = 1
    /\ Len(message_handlers) = 1

\* the step in which task t's connect(), authenticated, gets past the previous
\* receive task (102-107) and reaches line 110: at once, after that task has
\* ended, or, in a receive task that reconnects, after its wait for itself
ConnectPasses(t) ==
  \/ pc[t] = "auth_recv" /\ (receive_task = None \/ Done(receive_task)) /\ AuthSucceeds(t)
  \/ pc[t] = "await_old" /\ ~cancelReq[t] /\ pc[waitOn[t]] # "raised" /\ AwaitOldDone(t)
  \/ pc[t] = "await_old" /\ cancelReq[t] /\ AwaitOldCancelled(t)

RECURSIVE ReadsAccessError(_, _)
ReadsAccessError(ms, handlers) ==
  IF ms = <<>> THEN FALSE
  ELSE LET m == Head(ms) IN
    IF ~m.isdict THEN FALSE
    ELSE IF m.ev = "status"
      THEN (m.status = "error" /\ m.message = "no access")
           \/ ReadsAccessError(Tail(ms), handlers)
    ELSE handlers = <<>> /\ ReadsAccessError(Tail(ms), handlers)

\* the step in which receive task t reads such a message: in a new frame, or
\* in the rest of a frame after the last handler has returned
AccessErrorRead(t) ==
  \/ /\ pc[t] = "recv"
     /\ \E f \in LoopFrames(sentData) :
          f.kind = "list" /\ ReadsAccessError(f.msgs, message_handlers) /\ RecvFrame(t, f)
  \/ /\ pc[t] = "handler" /\ hidx[t] >= Len(message_handlers)
     /\ ReadsAccessError(pend[t], message_handlers) /\ HandlerDone(t)

\* C16: when the receive loop, the only reader of its transport, reads a
\* status message that reports a plan limitation, last_error is set and state
\* becomes Error, while the transport stays open, the loop goes on (it waits
\* for the next frame or in a handler), and no reconnection is started: no
\* task enters the backoff sleep or a connect, no delay is waited and
\* reconnect_attempts is unchanged.
C16_AccessErrorKeepsLoop ==
  [][\A t \in RTasks :
       (AccessErrorRead(t) /\ ~Reading(tws[t], t))
         => /\ last_error' = "no access" /\ state' = "error"
            /\ wsStat' = wsStat /\ websocket' = websocket /\ IsOpen(tws'[t])
            /\ pc'[t] \in {"recv", "handler"}
            /\ \A u \in Tasks \ {t} : pc'[u] = pc[u]
            /\ receive_task' = receive_task
            /\ reconnect_attempts' = reconnect_attempts /\ delays' = delays]_vars

\* C16's case: the access error was read after a data message of the same
\* frame had been handed to a handler, and the loop waits for the next frame
C16_Witness ==
  /\ state = "error" /\ last_error = "no access"
  /\ Len(delivered) >= 1 /\ reconnect_attempts = 0
  /\ \E t \in RTasks : pc[t] = "recv" /\ IsOpen(tws[t])

\* a frame that is not an array of message objects: invalid JSON, a single
\* object, or an array with an element that is not an object
Malformed(f) ==
  \/ f.kind \in {"badjson", "object"}
  \/ f.kind = "list" /\ \E i \in DOMAIN f.msgs : ~f.msgs[i].isdict

\* C17: a frame that is not an array of message objects is skipped: the step
\* that reads it changes neither state nor buffer nor counters, calls no
\* handler, and leaves the receive task waiting for the next frame.
C17_MalformedFrameSkipped ==
  [][\A t \in RTasks : \A f \in LoopFrames(sentData) :
       (Malformed(f) /\ RecvFrame(t, f))
         => /\ state' = state /\ last_error' = last_error
            /\ message_buffer' = message_buffer
            /\ total_messages_received' = total_messages_received
            /\ delivered' = delivered
            /\ pc'[t] = "recv"]_vars

\* C18: when the receive loop finds the transport of the connection closed
\* from the remote side, after a normal or an abnormal closure, the loop ends,
\* state becomes Error and the reconnection routine is entered: the task waits
\* in the backoff sleep and reconnect_attempts has grown by one.
C18_ClosureTriggersReconnect ==
  [][\A t \in RTasks :
       RecvClosed(t)
         => /\ state' = "error"
            /\ pc'[t] = "sleep"
            /\ reconnect_attempts' = reconnect_attempts + 1]_vars

\* the remote side accepts: a connection attempt that waits for the transport
\* gets it, an auth request that waits for its answer gets auth_success
RemoteAccepts ==
  /\ WF_vars(InLive(\E t \in Tasks : OpenAccepted(t)))
  /\ WF_vars(InLive(\E t \in Tasks :
               AuthRecv(t, ListFrame(<<StatusMsg("auth_success", "authenticated")>>))))

\* a step in which a connection attempt or the receive loop fails
FailureStep == \E t \in Tasks : pc[t] # "sleep" /\ pc'[t] = "sleep"

\* C19: with fair scheduling and no close(), state Error always leads to state
\* Connecting, after each of any number of consecutive failures; and when the
\* remote side answers every attempt and from some point on no attempt fails,
\* a connection that is being established leads to state Connected.
C19_RetryNeverGivesUp ==
  /\ (state = "error") ~> (state = "connecting")
  /\ (RemoteAccepts /\ <>[][~FailureStep]_vars)
       => ((state \in {"connecting", "authenticating", "error"}) ~> (state = "connected"))

\* an attempt is started after LiveAttempts consecutive failures, the last of
\* them on a transport that had been opened
C19_Witness ==
  /\ state = "connecting"
  /\ reconnect_attempts = LiveAttempts
  /\ Len(delays) = LiveAttempts
  /\ Opened # {}
  /\ \E t \in Tasks : pc[t] = "open"

\* the last operation of caller c is a close() that has returned
CloseReturned(c) == op[c] = "close" /\ pc[c] = "idle" /\ res[c] = Ok("close")

\* C20: once a close() has returned and left state Disconnected, no step but a
\* caller's call of connect() changes state: no reconnection routine, in the
\* receive task or in a caller's connect() that was in flight, starts another
\* connect attempt or completes one.
C20_CloseStopsReconnection ==
  [][((\E c \in Callers : CloseReturned(c)) /\ state = "disconnected")
       => (state' = "disconnected" \/ \E c \in Callers : ConnectCall(c))]_vars

\* the handler calls logged so far are in the order of the messages, and the
\* calls for one message are in the order of registration
InOrder(log) ==
  \A i, j \in DOMAIN log :
    i < j => \/ log[i][3] < log[j][3]
             \/ log[i][3] = log[j][3] /\ log[i][1] < log[j][1]

\* C21: the handler calls of one connection are made message by message in the
\* order of arrival and, for one message, handler by handler in the order of
\* registration, and at no time are two receive tasks of the connection
\* inside a handler call.
C21_DeliveryInOrderNoOverlap ==
  /\ InOrder(delivered)
  /\ Cardinality({t \in RTasks : pc[t] = "handler"}) <= 1

\* the changes of state that the lifecycle lists
ListedTransitions ==
  { <<"disconnected", "connecting">>,
    <<"connecting", "authenticating">>,
    <<"authenticating", "connected">>,
    <<"connecting", "error">>, <<"authenticating", "error">>, <<"connected", "error">>,
    <<"error", "connecting">>,
    <<"connected", "disconnected">>, <<"error", "disconnected">> }

\* C22: every step that changes state makes one of the listed transitions.
C22_OnlyListedTransitions ==
  [][state' # state => <<state, state'>> \in ListedTransitions]_vars

\* the answer that frame f carries: the first auth_success or auth_failed
\* status among its messages, "none" when it has neither, "malformed" when it
\* is no array of message objects up to that answer
FirstAnswer(f) ==
  IF f.kind # "list" THEN "malformed"
  ELSE LET ms == f.msgs
           ans == {i \in DOMAIN ms : /\ ms[i].isdict /\ ms[i].ev = "status"
                                     /\ ms[i].status \in {"auth_success", "auth_failed"}}
           bad == {i \in DOMAIN ms : ~ms[i].isdict}
       IN IF ans = {} THEN (IF bad = {} THEN "none" ELSE "malformed")
          ELSE LET i == CHOOSE k \in ans : \A l \in ans : k <= l
               IN IF \E j \in bad : j < i THEN "malformed"
                  ELSE IF ms[i].status = "auth_success" THEN "success" ELSE "failed"

\* task t's authentication has failed: connect() is in its error handling
AuthRaised(t) == pc'[t] = "sleep" /\ state' = "error"

\* C23: _authenticate sends one auth request, when the transport was opened,
\* and none later; each of its reads is one of at most five; a frame with
\* auth_success first makes it return (connect() goes on in state Connected),
\* a frame with auth_failed first or a malformed frame makes it fail, a frame
\* with neither is ignored and the next frame is read, unless it was the
\* fifth, after which it fails.
C23_AuthenticateReadsAtMostFive ==
  [][\A t \in Tasks :
       /\ OpenAccepted(t) => wire' = OutFrame("auth", <<>>, websocket')
       /\ AuthSendDone(t) => wire'.action # "auth"
       /\ \A f \in AuthFrames :
            AuthRecv(t, f) =>
              /\ att[t] < max_attempts
              /\ wire'.action # "auth"
              /\ FirstAnswer(f) = "success"
                   => (state' = "connected" /\ pc'[t] \in {"await_old", "idle", "returned"})
              /\ FirstAnswer(f) \in {"failed", "malformed"} => AuthRaised(t)
              /\ (FirstAnswer(f) = "none" /\ att[t] + 1 < max_attempts
                    /\ ~Reading(websocket, t))
                   => (pc'[t] = "auth_recv" /\ att'[t] = att[t] + 1 /\ state' = state
                       /\ reconnect_attempts' = reconnect_attempts)
              /\ (FirstAnswer(f) = "none" /\ att[t] + 1 >= max_attempts) => AuthRaised(t)]_vars

\* four frames were ignored and the fifth read is pending
C23_Witness == \E t \in Tasks : pc[t] = "auth_recv" /\ att[t] = max_attempts - 1

\* get_status reports an error
ReportsError(st) == "last_error" \in DOMAIN st

\* a step of the receive loop in which a plan limitation is read
AccessErrorStep ==
  \E t \in RTasks : /\ pc[t] \in {"recv", "handler"}
                    /\ \/ HandlerDone(t)
                       \/ \E f \in LoopFrames(sentData) : RecvFrame(t, f)
                    /\ last_error' = "no access"

\* C24: an error that get_status reports stays reported, with the same text,
\* through every step that is not the return of a close() and not the reading
\* of a later plan limitation; and when a close() returns, get_status reports
\* no error.
C24_LastErrorUntilClose ==
  [][/\ (ReportsError(get_status) /\ ~\E c \in Callers : CloseReturns(c))
          => /\ ReportsError(get_status')
             /\ get_status'.last_error # get_status.last_error => AccessErrorStep
     /\ (\E c \in Callers : CloseReturns(c)) => ~ReportsError(get_status')]_vars

\* the data messages among ms that the loop takes before it is suspended in a
\* handler or ends with an exception: all up to the first that is no message
\* object, and with a handler registered none after the first data message
TakenOf(ms) ==
  LET stop == {i \in DOMAIN ms :
                 \/ ~ms[i].isdict
                 \/ message_handlers # <<>> /\ ms[i].ev # "status"}
      last == IF stop = {} THEN Len(ms) ELSE CHOOSE i \in stop : \A j \in stop : i <= j
  IN Cardinality({i \in 1..last : ms[i].isdict /\ ms[i].ev # "status"})

CalledWith(h, id) == {i \in DOMAIN delivered : delivered[i][1] = h /\ delivered[i][3] = id}

Delivering(msg) == \E t \in RTasks : pc[t] = "handler" /\ cur[t] = msg

C27_EveryHandlerGetsEveryMessage ==
  \A k \in DOMAIN message_buffer :
    \A j \in DOMAIN message_handlers :
      LET msg == message_buffer[k]
          h == message_handlers[j]
      IN /\ Cardinality(CalledWith(h, msg.id)) <= 1
         /\ ((\E id \in 1..(msg.id - 1) : CalledWith(h, id) # {}) /\ ~Delivering(msg))
              => CalledWith(h, msg.id) # {}

\* C28: when a registered handler raises while a data message is processed,
\* the connection does not stay Connected without a receive loop: after the
\* step either state is no longer connected or some receive task is still
\* running (started and not ended).
C28_HandlerFailureNotSilent ==
  [][\A t \in RTasks :
       (HandlerRaises(t) /\ \E c \in Callers : op[c] = "connect" /\ pc[c] = "idle")
         => \/ state' # "connected"
            \/ \E u \in RTasks : pc'[u] \notin {"unborn", "cancelled", "returned", "raised"}]_vars

\* C29: the connection holds at most one open transport at any time: of the
\* transports it has opened, at most one is open.
C29_AtMostOneOpenTransport ==
  Cardinality({w \in Transports : wsStat[w] = "open"}) <= 1

\* C30: in every state the buffer holds at most 100 messages and at most as
\* many as were counted, in the order of arrival and without a gap; a step that
\* counts k data messages puts them, in the order of arrival, after the entries
\* kept, and drops exactly as many of the oldest entries as exceed the
\* capacity; the call of close() empties the buffer and no other step changes
\* it.
C30_BufferIsRecentWindow ==
  /\ [](/\ Len(message_buffer) <= buffer_maxlen
        /\ Len(message_buffer) <= total_messages_received
        /\ \A i \in 1..(Len(message_buffer) - 1) :
             message_buffer[i + 1].id = message_buffer[i].id + 1)
  /\ [][LET k == total_messages_received' - total_messages_received
            n == Len(message_buffer)
            n2 == Len(message_buffer')
        IN IF k > 0
             THEN /\ n2 = (IF n + k <= buffer_maxlen THEN n + k ELSE buffer_maxlen)
                  /\ \A i \in 1..k :
                       message_buffer'[n2 - k + i] = DataMsg(total_messages_received' - k + i)
                  /\ SubSeq(message_buffer', 1, n2 - k)
                       = SubSeq(message_buffer, n - (n2 - k) + 1, n)
             ELSE /\ k = 0
                  /\ IF \E c \in Callers : CloseCall(c)
                       THEN message_buffer' = <<>>
                       ELSE message_buffer' = message_buffer]_vars

\* C30's case: a close() has closed the first transport, the connection
\* receives on the second one, more messages were counted than the buffer
\* holds, and the buffer is full of the newest ones: the first messages are no
\* longer in it, emptied by the close() or evicted at capacity
C30_Witness ==
  /\ wsStat[1] = "closed_ok" /\ websocket = 2
  /\ total_messages_received = WinData
  /\ Len(message_buffer) = buffer_maxlen
  /\ message_buffer[1].id = WinData - buffer_maxlen + 1
  /\ message_buffer[1].id > 2

====
